---- MODULE Spec2Model ----
(***************************************************************************)
(* Bonding-curve swap quotation of the TokenSwap widget                    *)
(* (src/unnamed/part_002).  The widget computes its quotes in JavaScript   *)
(* numbers, that is IEEE-754 binary64 with round-to-nearest-even.  The     *)
(* model keeps that arithmetic: a number is a sign, a 53-bit significand   *)
(* and a binary exponent, and every operation rounds as the hardware does. *)
(* TLC integers are 32 bits wide, so significands and wei amounts are      *)
(* natural numbers written as little-endian sequences of 15-bit limbs.     *)
(* A value that a step uses more than once is handed to the next step as   *)
(* a parameter, so that it is computed once.                               *)
(***************************************************************************)
EXTENDS Integers, Sequences, FiniteSets, TLC

----------------------------------------------------------------------------
(* Natural numbers of arbitrary size: <<>> is 0, the last limb is nonzero. *)

Base == 2^15

Pow2(n) == 2^n

\* a without its leading zero limbs
RECURSIVE BNorm(_)
BNorm(a) ==
  IF a = <<>> THEN <<>>
  ELSE IF a[Len(a)] = 0 THEN BNorm(SubSeq(a, 1, Len(a) - 1)) ELSE a

\* The natural number of a machine integer n >= 0
RECURSIVE BFromInt(_)
BFromInt(n) == IF n = 0 THEN <<>> ELSE <<n % Base>> \o BFromInt(n \div Base)

BLimb(a, i) == IF i >= 1 /\ i <= Len(a) THEN a[i] ELSE 0

RECURSIVE BCmpFrom(_, _, _)
BCmpFrom(a, b, i) ==
  IF i = 0 THEN 0
  ELSE IF a[i] < b[i] THEN -1
  ELSE IF a[i] > b[i] THEN 1
  ELSE BCmpFrom(a, b, i - 1)

\* -1, 0 or 1 as a < b, a = b, a > b
BCmp(a, b) ==
  IF Len(a) < Len(b) THEN -1
  ELSE IF Len(a) > Len(b) THEN 1
  ELSE BCmpFrom(a, b, Len(a))

RECURSIVE BAddFrom(_, _, _, _)
BAddFrom(a, b, i, carry) ==
  IF i > Len(a) /\ i > Len(b)
  THEN IF carry = 0 THEN <<>> ELSE <<carry>>
  ELSE <<(BLimb(a, i) + BLimb(b, i) + carry) % Base>>
       \o BAddFrom(a, b, i + 1, (BLimb(a, i) + BLimb(b, i) + carry) \div Base)

\* a + b
BAdd(a, b) == BAddFrom(a, b, 1, 0)

RECURSIVE BSubFrom(_, _, _, _)
BSubFrom(a, b, i, borrow) ==
  IF i > Len(a) THEN <<>>
  ELSE IF a[i] - BLimb(b, i) - borrow < 0
  THEN <<a[i] - BLimb(b, i) - borrow + Base>> \o BSubFrom(a, b, i + 1, 1)
  ELSE <<a[i] - BLimb(b, i) - borrow>> \o BSubFrom(a, b, i + 1, 0)

\* a - b for a >= b
BSub(a, b) == BNorm(BSubFrom(a, b, 1, 0))

RECURSIVE BMulSmallFrom(_, _, _, _)
BMulSmallFrom(a, k, i, carry) ==
  IF i > Len(a)
  THEN IF carry = 0 THEN <<>> ELSE <<carry>>
  ELSE <<(a[i] * k + carry) % Base>>
       \o BMulSmallFrom(a, k, i + 1, (a[i] * k + carry) \div Base)

\* a * k for 0 <= k < Base
BMulSmall(a, k) == IF k = 0 THEN <<>> ELSE BMulSmallFrom(a, k, 1, 0)

\* n zero limbs
RECURSIVE BZeros(_)
BZeros(n) == IF n <= 0 THEN <<>> ELSE <<0>> \o BZeros(n - 1)

\* a * Base^n
BShlLimbs(a, n) == IF a = <<>> THEN <<>> ELSE BZeros(n) \o a

RECURSIVE BMulFrom(_, _, _)
BMulFrom(a, b, j) ==
  IF j > Len(b) THEN <<>>
  ELSE BAdd(BShlLimbs(BMulSmall(a, b[j]), j - 1), BMulFrom(a, b, j + 1))

\* a * b
BMul(a, b) == BMulFrom(a, b, 1)

\* a * 2^n
BShl(a, n) == BShlLimbs(BMulSmall(a, Pow2(n % 15)), n \div 15)

RECURSIVE BShrFrom(_, _, _, _)
BShrFrom(a, i, p, q) ==
  IF i > Len(a) THEN <<>>
  ELSE <<(a[i] \div p) + (BLimb(a, i + 1) % p) * q>> \o BShrFrom(a, i + 1, p, q)

\* floor(a / 2^n)
BShr(a, n) == BNorm(BShrFrom(a, (n \div 15) + 1, Pow2(n % 15), Pow2(15 - (n % 15))))

\* The number of bits of 0 <= n < Base
BitLenSmall(n) == CHOOSE k \in 0..15 : n < Pow2(k) /\ (k = 0 \/ n >= Pow2(k - 1))

BBitLen(a) ==
  IF a = <<>> THEN 0 ELSE 15 * (Len(a) - 1) + BitLenSmall(a[Len(a)])

BOne == <<1>>

\* The largest t with t * d <= r, searched downwards from the estimate t.
RECURSIVE BDigitDown(_, _, _)
BDigitDown(r, d, t) ==
  IF BCmp(BMulSmall(d, t), r) <= 0 THEN t ELSE BDigitDown(r, d, t - 1)

\* The smaller of the estimate and the largest limb
BDigitCap(est) == IF est > Base - 1 THEN Base - 1 ELSE est

\* One quotient limb of r / d, where r < d * Base and the top limb of d is
\* at least Base / 2: the two top limbs of r over the top limb of d
\* overestimate it by at most 2.
BDigit(r, d) ==
  BDigitDown(r, d, BDigitCap((BLimb(r, Len(d) + 1) * Base + BLimb(r, Len(d)))
                             \div d[Len(d)]))

\* Schoolbook long division of a by d, from the top limb of a down: q holds
\* the quotient limbs found so far (least significant first) and r the
\* remainder of the limbs above i.  Limb i is brought down (r2), the next
\* quotient limb t is found, and the division goes on below i.
RECURSIVE BDivFrom(_, _, _, _, _)
BDivNext(a, d, i, q, r2, t) ==
  CASE t \in 0..(Base - 1) ->
    BDivFrom(a, d, i - 1, <<t>> \o q, BSub(r2, BMulSmall(d, t)))

BDivStep(a, d, i, q, r2) == BDivNext(a, d, i, q, r2, BDigit(r2, d))

BDivFrom(a, d, i, q, r) ==
  IF i = 0 THEN [q |-> q, r |-> r]
  ELSE BDivStep(a, d, i, q, BNorm(<<a[i]>> \o r))

BDivResult(qr, sh) == [q |-> BNorm(qr.q), r |-> BShr(qr.r, sh)]

\* The division of a by d, both shifted left by sh so that the top limb of d
\* is at least Base / 2
BDivShifted(a, d, sh) == BDivResult(BDivFrom(a, d, Len(a), <<>>, <<>>), sh)

BDivBy(a, d, sh) == BDivShifted(BShl(a, sh), BShl(d, sh), sh)

\* [q |-> floor(a / d), r |-> a mod d] for d > 0
BDivMod(a, d) == BDivBy(a, d, 15 - BitLenSmall(d[Len(d)]))

\* 10^n, by squaring
RECURSIVE BPow10(_)
BSquare(h) == BMul(h, h)

BPow10(n) ==
  IF n = 0 THEN BOne
  ELSE IF n % 2 = 1 THEN BMulSmall(BPow10(n - 1), 10)
  ELSE BSquare(BPow10(n \div 2))

----------------------------------------------------------------------------
(* JavaScript numbers.  A finite nonzero number is (-1)^s * m * 2^e with   *)
(* 2^52 <= m < 2^53 (normal) or e = -1074 and m < 2^52 (subnormal), so     *)
(* every number has one representation.  k is "fin", "zero", "inf", "nan". *)

FZero(s) == [k |-> "zero", s |-> s, m |-> <<>>, e |-> 0]
FInf(s) == [k |-> "inf", s |-> s, m |-> <<>>, e |-> 0]
FNaN == [k |-> "nan", s |-> 0, m |-> <<>>, e |-> 0]

FMake(s, m, e) ==
  IF m = <<>> THEN FZero(s)
  ELSE IF BBitLen(m) = 53 /\ e > 971 THEN FInf(s)
  ELSE [k |-> "fin", s |-> s, m |-> m, e |-> e]

\* Rounding up may carry into a 54th bit
FRoundCarry(s, m1, e1) ==
  IF BBitLen(m1) = 54 THEN FMake(s, BShr(m1, 1), e1 + 1) ELSE FMake(s, m1, e1)

\* m0 is the significand cut off and c compares what was cut with half a
\* unit in the last place: up when over half, or half and sticky or m0 odd
FRoundUp(s, m0, c, sticky, e1) ==
  FRoundCarry(s,
              IF c > 0 \/ (c = 0 /\ (sticky \/ (m0 # <<>> /\ m0[1] % 2 = 1)))
              THEN BAdd(m0, BOne) ELSE m0,
              e1)

FRoundCut(s, q, sticky, e1, sh, m0) ==
  FRoundUp(s, m0, BCmp(BSub(q, BShl(m0, sh)), BShl(BOne, sh - 1)), sticky, e1)

\* e1 is the exponent of the result: that of a 53-bit significand, or -1074
FRoundAt(s, q, sticky, e, e1) ==
  IF e1 <= e THEN FMake(s, BShl(q, e - e1), e1)
  ELSE FRoundCut(s, q, sticky, e1, e1 - e, BShr(q, e1 - e))

\* The number nearest to (q + f) * 2^e, ties to even, where 0 <= f < 1 and
\* sticky says f > 0.  When sticky, q has at least 55 bits.
FRound(s, q, sticky, e) ==
  IF q = <<>> THEN FZero(s)
  ELSE FRoundAt(s, q, sticky, e,
                IF e + BBitLen(q) - 53 < -1074 THEN -1074 ELSE e + BBitLen(q) - 53)

FRoundQuotient(s, qr, e) == FRound(s, qr.q, qr.r # <<>>, e)

\* n is shifted left by sh bits, so that the quotient has at least 56 bits
FRoundRatBy(s, n, d, e, sh) == FRoundQuotient(s, BDivMod(BShl(n, sh), d), e - sh)

\* The number nearest to (n / d) * 2^e for naturals n, d > 0
FRoundRat(s, n, d, e) ==
  IF n = <<>> THEN FZero(s)
  ELSE FRoundRatBy(s, n, d, e,
                   IF 56 + BBitLen(d) - BBitLen(n) > 0
                   THEN 56 + BBitLen(d) - BBitLen(n) ELSE 0)

FXor(a, b) == (a + b) % 2

\* x / y
FDiv(x, y) ==
  IF x.k = "nan" \/ y.k = "nan" THEN FNaN
  ELSE IF x.k = "inf" THEN (IF y.k = "inf" THEN FNaN ELSE FInf(FXor(x.s, y.s)))
  ELSE IF y.k = "inf" THEN FZero(FXor(x.s, y.s))
  ELSE IF y.k = "zero" THEN (IF x.k = "zero" THEN FNaN ELSE FInf(FXor(x.s, y.s)))
  ELSE IF x.k = "zero" THEN FZero(FXor(x.s, y.s))
  ELSE FRoundRat(FXor(x.s, y.s), x.m, y.m, x.e - y.e)

\* x * y
FMul(x, y) ==
  IF x.k = "nan" \/ y.k = "nan" THEN FNaN
  ELSE IF x.k = "inf" \/ y.k = "inf"
       THEN (IF x.k = "zero" \/ y.k = "zero" THEN FNaN ELSE FInf(FXor(x.s, y.s)))
  ELSE IF x.k = "zero" \/ y.k = "zero" THEN FZero(FXor(x.s, y.s))
  ELSE FRound(FXor(x.s, y.s), BMul(x.m, y.m), FALSE, x.e + y.e)

\* a and b are the significands of x and y at the common exponent e, and c
\* compares them: the sum of the magnitudes, or their difference with the
\* sign of the larger
FAddCompared(x, y, a, b, e, c) ==
  IF x.s # y.s /\ c = 0 THEN FZero(0)
  ELSE FRound(IF x.s = y.s \/ c > 0 THEN x.s ELSE y.s,
              IF x.s = y.s THEN BAdd(a, b)
              ELSE IF c > 0 THEN BSub(a, b) ELSE BSub(b, a),
              FALSE, e)

FAddAligned(x, y, a, b, e) == FAddCompared(x, y, a, b, e, BCmp(a, b))

FAddAt(x, y, e) == FAddAligned(x, y, BShl(x.m, x.e - e), BShl(y.m, y.e - e), e)

\* x + y
FAdd(x, y) ==
  IF x.k = "nan" \/ y.k = "nan" THEN FNaN
  ELSE IF x.k = "inf"
       THEN (IF y.k = "inf" /\ y.s # x.s THEN FNaN ELSE x)
  ELSE IF y.k = "inf" THEN y
  ELSE IF x.k = "zero"
       THEN (IF y.k = "zero" THEN FZero(IF x.s = 1 /\ y.s = 1 THEN 1 ELSE 0) ELSE y)
  ELSE IF y.k = "zero" THEN x
  ELSE IF x.e - y.e > 55 THEN x   \* |y| is under a quarter of x's last place
  ELSE IF y.e - x.e > 55 THEN y
  ELSE FAddAt(x, y, IF x.e < y.e THEN x.e ELSE y.e)

\* x - y
FSub(x, y) == FAdd(x, IF y.k = "nan" THEN y ELSE [y EXCEPT !.s = 1 - y.s])

\* -1, 0, 1 as |x| < |y|, |x| = |y|, |x| > |y| for finite nonzero x, y
FCmpMag(x, y) ==
  IF x.e < y.e THEN -1
  ELSE IF x.e > y.e THEN 1
  ELSE BCmp(x.m, y.m)

\* x < y as JavaScript compares numbers (false when either is NaN)
FLt(x, y) ==
  IF x.k = "nan" \/ y.k = "nan" THEN FALSE
  ELSE IF x.k = "zero"
       THEN (y.k # "zero" /\ y.s = 0)
  ELSE IF y.k = "zero" THEN x.s = 1
  ELSE IF x.s # y.s THEN x.s = 1
  ELSE IF x.k = "inf" THEN (y.k # "inf" /\ x.s = 1)
  ELSE IF y.k = "inf" THEN y.s = 0
  ELSE IF x.s = 0 THEN FCmpMag(x, y) < 0 ELSE FCmpMag(x, y) > 0

\* x === y on numbers
FEq(x, y) ==
  IF x.k = "nan" \/ y.k = "nan" THEN FALSE
  ELSE IF x.k = "zero" THEN y.k = "zero"
  ELSE x = y

\* x <= y
FLe(x, y) == FLt(x, y) \/ FEq(x, y)

\* A number written in the source as an integer literal: a natural of at
\* most 53 bits, which needs no rounding
FFromInt(n) ==
  LET b == BFromInt(n)
  IN  IF b = <<>> THEN FZero(0)
      ELSE FMake(0, BShl(b, 53 - BBitLen(b)), BBitLen(b) - 53)

FAbs(x) == IF x.k = "nan" THEN x ELSE [x EXCEPT !.s = 0]

FIsFinite(x) == x.k \in {"fin", "zero"}

----------------------------------------------------------------------------
(* Text.  A string is a sequence of one-character strings, so that the     *)
(* conversions between text and numbers read and write characters.         *)

Digits == <<"0", "1", "2", "3", "4", "5", "6", "7", "8", "9">>
DigitVal(c) == (CHOOSE i \in 1..10 : Digits[i] = c) - 1

CharAt(t, p) == IF p >= 1 /\ p <= Len(t) THEN t[p] ELSE "end"

\* How many digit characters t holds from position p on
RECURSIVE DigitRun(_, _)
DigitRun(t, p) ==
  IF CharAt(t, p) \in {Digits[i] : i \in 1..10} THEN 1 + DigitRun(t, p + 1) ELSE 0

\* The natural number written by the n digits of t from position p: the
\* upper n - h digits times 10^h plus the lower h digits
RECURSIVE DigitsToBig(_, _, _)
DigitsToBigSplit(t, p, n, h) ==
  BAdd(BMul(DigitsToBig(t, p, n - h), BPow10(h)), DigitsToBig(t, p + n - h, h))

DigitsToBig(t, p, n) ==
  IF n = 0 THEN <<>>
  ELSE IF n = 1 THEN BFromInt(DigitVal(t[p]))
  ELSE DigitsToBigSplit(t, p, n, n \div 2)

\* The same as a machine integer, capped at 9999 (decimal exponents)
RECURSIVE DigitsToInt(_, _, _)
DigitsToIntAppend(hi, c) == IF hi > 999 THEN 9999 ELSE hi * 10 + DigitVal(c)

DigitsToInt(t, p, n) ==
  IF n = 0 THEN 0 ELSE DigitsToIntAppend(DigitsToInt(t, p, n - 1), t[p + n - 1])

\* The four decimal digits of 0 <= r < 10000
FourDigits(r) ==
  <<Digits[(r \div 1000) + 1], Digits[((r \div 100) % 10) + 1],
    Digits[((r \div 10) % 10) + 1], Digits[(r % 10) + 1]>>

\* Digits without their leading zeros
RECURSIVE StripZeros(_)
StripZeros(d) ==
  IF d # <<>> /\ d[1] = "0" THEN StripZeros(SubSeq(d, 2, Len(d))) ELSE d

\* The decimal digits of a natural number, most significant first: those of
\* n div 10000, then the four of n mod 10000
RECURSIVE BigToDigits(_)
BigToDigitsJoin(hi, lo) == IF hi = <<>> THEN StripZeros(lo) ELSE hi \o lo

BigToDigitsSplit(qr) == BigToDigitsJoin(BigToDigits(qr.q), FourDigits(BLimb(qr.r, 1)))

BigToDigits(n) ==
  IF n = <<>> THEN <<>> ELSE BigToDigitsSplit(BDivMod(n, <<10000>>))

RECURSIVE SkipSpaces(_, _)
SkipSpaces(t, p) == IF CharAt(t, p) = " " THEN SkipSpaces(t, p + 1) ELSE p

HasPrefixAt(t, p, w) ==
  /\ p + Len(w) - 1 <= Len(t)
  /\ \A i \in 1..Len(w) : t[p + i - 1] = w[i]

InfinityText == <<"I", "n", "f", "i", "n", "i", "t", "y">>
NaNText == <<"N", "a", "N">>

\* The number nearest to (-1)^s * m * 10^e10, m a natural of nd digits
FFromDecimal(s, m, nd, e10) ==
  IF m = <<>> THEN FZero(s)
  ELSE IF e10 > 310 THEN FInf(s)
  ELSE IF e10 + nd < -330 THEN FZero(s)
  ELSE IF e10 >= 0 THEN FRound(s, BMul(m, BPow10(e10)), FALSE, 0)
  ELSE FRoundRat(s, m, BPow10(-e10), 0)

\* parseFloat(t): the longest prefix of the trimmed text that is a decimal
\* literal (sign, Infinity or digits with an optional fraction and an
\* optional exponent); NaN when there is none.  The scan goes left to
\* right: p1 is where the digits start, ni and nf count the digits before
\* and after the point, p2 is where an exponent would start, ne counts its
\* digits from p3 on and es is its sign.
ParseExpDigits(t, s, p1, ni, nf, es, p3, ne) ==
  FFromDecimal(s,
               BAdd(BMul(DigitsToBig(t, p1, ni), BPow10(nf)),
                    DigitsToBig(t, p1 + ni + 1, nf)),
               ni + nf,
               (IF es = 1 THEN -DigitsToInt(t, p3, ne) ELSE DigitsToInt(t, p3, ne)) - nf)

ParseExpSign(t, s, p1, ni, nf, es, p3) ==
  ParseExpDigits(t, s, p1, ni, nf, es, p3, DigitRun(t, p3))

ParseExp(t, s, p1, ni, nf, p2) ==
  IF CharAt(t, p2) \in {"e", "E"}
  THEN ParseExpSign(t, s, p1, ni, nf,
                    IF CharAt(t, p2 + 1) = "-" THEN 1 ELSE 0,
                    IF CharAt(t, p2 + 1) \in {"-", "+"} THEN p2 + 2 ELSE p2 + 1)
  ELSE ParseExpDigits(t, s, p1, ni, nf, 0, p2, 0)

ParseFraction(t, s, p1, ni, nf) ==
  IF ni + nf = 0 THEN FNaN
  ELSE ParseExp(t, s, p1, ni, nf,
                IF CharAt(t, p1 + ni) = "." THEN p1 + ni + 1 + nf ELSE p1 + ni)

ParseInteger(t, s, p1, ni) ==
  ParseFraction(t, s, p1, ni,
                IF CharAt(t, p1 + ni) = "." THEN DigitRun(t, p1 + ni + 1) ELSE 0)

ParseSign(t, s, p1) ==
  IF HasPrefixAt(t, p1, InfinityText) THEN FInf(s)
  ELSE ParseInteger(t, s, p1, DigitRun(t, p1))

ParseTrimmed(t, p0) ==
  ParseSign(t,
            IF CharAt(t, p0) = "-" THEN 1 ELSE 0,
            IF CharAt(t, p0) \in {"-", "+"} THEN p0 + 1 ELSE p0)

ParseFloat(t) == ParseTrimmed(t, SkipSpaces(t, 1))

\* BigInt(t) of a string: an optionally signed run of digits (the empty
\* string is 0n); anything else is a SyntaxError (ok = FALSE).
BigIntSigned(s, n) == [ok |-> TRUE, s |-> IF n = <<>> THEN 0 ELSE s, n |-> n]

BigIntDigits(t, s, p, n) ==
  IF n = 0 \/ p + n - 1 # Len(t) THEN [ok |-> FALSE, s |-> 0, n |-> <<>>]
  ELSE BigIntSigned(s, DigitsToBig(t, p, n))

BigIntSign(t, s, p) == BigIntDigits(t, s, p, DigitRun(t, p))

StringToBigInt(t) ==
  IF t = <<>> THEN [ok |-> TRUE, s |-> 0, n |-> <<>>]
  ELSE BigIntSign(t,
                  IF CharAt(t, 1) = "-" THEN 1 ELSE 0,
                  IF CharAt(t, 1) \in {"-", "+"} THEN 2 ELSE 1)

\* 10^18, the wei of one unit
TenPow18 == BPow10(18)

\* Number(formatUnits(w, 18)): formatUnits writes the bigint w / 10^18 as an
\* exact decimal string and Number reads it back as the nearest number.
WeiToNatural(s, w) == FRoundRat(s, w, TenPow18, 0)

\* BigInt(Math.floor(x)) for a finite x: a sign and a magnitude.  The floor
\* of a negative number that is no integer lies one below its integer part
\* (whole).
FloorSigned(s, n) == [s |-> IF n = <<>> THEN 0 ELSE s, n |-> n]

FloorFrom(x, whole) ==
  FloorSigned(x.s,
              IF x.s = 1 /\ x.e < 0 /\ BShl(whole, -x.e) # x.m
              THEN BAdd(whole, BOne) ELSE whole)

FloorToBigInt(x) ==
  IF x.k = "zero" THEN [s |-> 0, n |-> <<>>]
  ELSE FloorFrom(x, IF x.e >= 0 THEN BShl(x.m, x.e) ELSE BShr(x.m, -x.e))

\* n "0" characters
RECURSIVE ZeroChars(_)
ZeroChars(n) == IF n <= 0 THEN <<>> ELSE <<"0">> \o ZeroChars(n - 1)

\* x.toFixed(6), for |x| < 10^21: the integer nearest to |x| * 10^6, the
\* larger one of two, written with six decimals (pad holds its digits, seven
\* at least); Infinity and NaN are written by name.
FixedPoint(sign, pad) ==
  sign \o SubSeq(pad, 1, Len(pad) - 6) \o <<".">>
       \o SubSeq(pad, Len(pad) - 5, Len(pad))

FixedDigits(sign, d) == FixedPoint(sign, ZeroChars(7 - Len(d)) \o d)

\* round(|x| * 10^6) = floor((|x| * 2 * 10^6 + 1) / 2)
FixedScaled(x) ==
  IF x.k = "zero" \/ x.e < -200 THEN <<>>
  ELSE IF x.e >= 0 THEN BShl(BMul(x.m, BFromInt(1000000)), x.e)
  ELSE BShr(BAdd(BMul(x.m, BFromInt(2000000)), BShl(BOne, -x.e)), 1 - x.e)

ToFixed6(x) ==
  IF x.k = "nan" THEN NaNText
  ELSE IF x.k = "inf" THEN (IF x.s = 1 THEN <<"-">> ELSE <<>>) \o InfinityText
  ELSE FixedDigits(IF x.k = "fin" /\ x.s = 1 THEN <<"-">> ELSE <<>>,
                   BigToDigits(FixedScaled(x)))

----------------------------------------------------------------------------
(* The bonding curve of the TokenSwap widget.                              *)

VIRTUAL_USDT_RESERVE == 6000
VIRTUAL_TOKEN_RESERVE == 1073000191
BONDING_CURVE_K ==
  FMul(FFromInt(VIRTUAL_USDT_RESERVE), FFromInt(VIRTUAL_TOKEN_RESERVE))

\* token?.totalUsdtRaised when the token, or the field, is missing
Undefined == <<"undefined">>

\* getCurrentVirtualReserves with the initial token reserve handed back
\* instead of K / virtualUsdtNatural
ReservesWithInitialTokens(virtualUsdtNatural) ==
  [virtualUsdtNatural |-> virtualUsdtNatural,
   virtualTokensNatural |-> FFromInt(VIRTUAL_TOKEN_RESERVE)]

\* getCurrentVirtualReserves: the reserves returned from the try block
ReservesAt(virtualUsdtNatural) ==
  [virtualUsdtNatural |-> virtualUsdtNatural,
   virtualTokensNatural |-> FDiv(BONDING_CURVE_K, virtualUsdtNatural)]

\* getCurrentVirtualReserves from BigInt(totalUsdtRaisedWei) on: BigInt
\* throws on text that is no integer and the catch returns the initial
\* reserves.
ReservesOfWei(totalUsdtRaisedWei) ==
  IF ~totalUsdtRaisedWei.ok
  THEN [virtualUsdtNatural |-> FFromInt(VIRTUAL_USDT_RESERVE),
        virtualTokensNatural |-> FFromInt(VIRTUAL_TOKEN_RESERVE)]
  ELSE ReservesAt(FAdd(FFromInt(VIRTUAL_USDT_RESERVE),
                       WeiToNatural(totalUsdtRaisedWei.s, totalUsdtRaisedWei.n)))

\* getCurrentVirtualReserves(), reading token.totalUsdtRaised
getCurrentVirtualReserves(totalUsdtRaised) ==
  ReservesOfWei(StringToBigInt(IF totalUsdtRaised = Undefined \/ totalUsdtRaised = <<>>
                               THEN <<"0">> ELSE totalUsdtRaised))

\* The locals of a call of a quote function and the amount it returns
QuoteRun(amt, reserves, newVirtualUsdtNatural, newVirtualTokensNatural, out) ==
  [amt |-> amt,
   vq |-> reserves.virtualUsdtNatural,
   vb |-> reserves.virtualTokensNatural,
   nvq |-> newVirtualUsdtNatural,
   nvb |-> newVirtualTokensNatural,
   out |-> out]

\* calculateTokensToReceive with the operands of its subtraction swapped
TokensToMintSwapped(reserves, usdtAmountNatural, newVirtualUsdtNatural, newVirtualTokensNatural) ==
  QuoteRun(usdtAmountNatural, reserves, newVirtualUsdtNatural, newVirtualTokensNatural,
           FSub(newVirtualTokensNatural, reserves.virtualTokensNatural))

\* calculateTokensToReceive subtracting from the initial token reserve
TokensToMintFromInitial(reserves, usdtAmountNatural, newVirtualUsdtNatural, newVirtualTokensNatural) ==
  QuoteRun(usdtAmountNatural, reserves, newVirtualUsdtNatural, newVirtualTokensNatural,
           FSub(FFromInt(VIRTUAL_TOKEN_RESERVE), newVirtualTokensNatural))

\* calculateTokensToReceive: tokensToMintNatural
TokensToMint(reserves, usdtAmountNatural, newVirtualUsdtNatural, newVirtualTokensNatural) ==
  QuoteRun(usdtAmountNatural, reserves, newVirtualUsdtNatural, newVirtualTokensNatural,
           FSub(reserves.virtualTokensNatural, newVirtualTokensNatural))

\* calculateTokensToReceive dividing the k of the comment on line 155,
\* 6,438,000,006,000, instead of BONDING_CURVE_K
TokensAfterPurchaseCommentK(reserves, usdtAmountNatural, newVirtualUsdtNatural) ==
  TokensToMint(reserves, usdtAmountNatural, newVirtualUsdtNatural,
               FDiv(FSub(BONDING_CURVE_K, FFromInt(1140000)), newVirtualUsdtNatural))

\* calculateTokensToReceive: newVirtualTokensNatural
TokensAfterPurchase(reserves, usdtAmountNatural, newVirtualUsdtNatural) ==
  TokensToMint(reserves, usdtAmountNatural, newVirtualUsdtNatural,
               FDiv(BONDING_CURVE_K, newVirtualUsdtNatural))

\* calculateTokensToReceive: newVirtualUsdtNatural
UsdtAfterPurchase(reserves, usdtAmountNatural) ==
  TokensAfterPurchase(reserves, usdtAmountNatural,
                      FAdd(reserves.virtualUsdtNatural, usdtAmountNatural))

\* calculateTokensToReceive(usdtAmountWei) with its locals.  No step of it
\* throws: its catch is never entered.
TokensToReceiveRun(totalUsdtRaised, usdtAmountWei) ==
  UsdtAfterPurchase(getCurrentVirtualReserves(totalUsdtRaised),
                    WeiToNatural(usdtAmountWei.s, usdtAmountWei.n))

calculateTokensToReceive(totalUsdtRaised, usdtAmountWei) ==
  TokensToReceiveRun(totalUsdtRaised, usdtAmountWei).out

\* calculateUsdtToReceive with the operands of its subtraction swapped
UsdtToReturnSwapped(reserves, tokenAmountNatural, newVirtualTokensNatural, newVirtualUsdtNatural) ==
  QuoteRun(tokenAmountNatural, reserves, newVirtualUsdtNatural, newVirtualTokensNatural,
           FSub(newVirtualUsdtNatural, reserves.virtualUsdtNatural))

\* calculateUsdtToReceive subtracting from the initial USDT reserve
UsdtToReturnFromInitial(reserves, tokenAmountNatural, newVirtualTokensNatural, newVirtualUsdtNatural) ==
  QuoteRun(tokenAmountNatural, reserves, newVirtualUsdtNatural, newVirtualTokensNatural,
           FSub(FFromInt(VIRTUAL_USDT_RESERVE), newVirtualUsdtNatural))

\* calculateUsdtToReceive: usdtToReturnNatural
UsdtToReturn(reserves, tokenAmountNatural, newVirtualTokensNatural, newVirtualUsdtNatural) ==
  QuoteRun(tokenAmountNatural, reserves, newVirtualUsdtNatural, newVirtualTokensNatural,
           FSub(reserves.virtualUsdtNatural, newVirtualUsdtNatural))

\* calculateUsdtToReceive: newVirtualUsdtNatural
UsdtAfterSale(reserves, tokenAmountNatural, newVirtualTokensNatural) ==
  UsdtToReturn(reserves, tokenAmountNatural, newVirtualTokensNatural,
               FDiv(BONDING_CURVE_K, newVirtualTokensNatural))

\* calculateUsdtToReceive taking the tokens sold out of the pool
TokensAfterSaleRemoved(reserves, tokenAmountNatural) ==
  UsdtAfterSale(reserves, tokenAmountNatural,
                FSub(reserves.virtualTokensNatural, tokenAmountNatural))

\* calculateUsdtToReceive: newVirtualTokensNatural
TokensAfterSale(reserves, tokenAmountNatural) ==
  UsdtAfterSale(reserves, tokenAmountNatural,
                FAdd(reserves.virtualTokensNatural, tokenAmountNatural))

\* calculateUsdtToReceive(tokenAmountNatural) with its locals.  No step of
\* it throws.
UsdtToReceiveRun(totalUsdtRaised, tokenAmountNatural) ==
  TokensAfterSale(getCurrentVirtualReserves(totalUsdtRaised), tokenAmountNatural)

calculateUsdtToReceive(totalUsdtRaised, tokenAmountNatural) ==
  UsdtToReceiveRun(totalUsdtRaised, tokenAmountNatural).out

\* getCurrentPriceNatural dividing the other way round
PriceInverted(reserves) == FDiv(reserves.virtualTokensNatural, reserves.virtualUsdtNatural)

\* getCurrentPriceNatural(): virtualUsdtNatural / virtualTokensNatural
PriceOf(reserves) == FDiv(reserves.virtualUsdtNatural, reserves.virtualTokensNatural)

getCurrentPriceNatural(totalUsdtRaised) ==
  PriceOf(getCurrentVirtualReserves(totalUsdtRaised))

\* The number 1e18 of the quote effect
WeiPerUnit == FRound(0, TenPow18, FALSE, 0)

\* BigInt(Math.floor(fromValue * 1e18)): BigInt throws a RangeError when the
\* product (scaled) is no finite number (ok = FALSE).
BigIntOfFloor(scaled) ==
  IF FIsFinite(scaled) THEN [ok |-> TRUE, wei |-> FloorToBigInt(scaled)]
  ELSE [ok |-> FALSE, wei |-> [s |-> 0, n |-> <<>>]]

usdtAmountWeiOf(fromValue) == BigIntOfFloor(FMul(fromValue, WeiPerUnit))

----------------------------------------------------------------------------
(* State.  The first five variables are the TokenSwap widget: its three    *)
(* pieces of React state, the token prop it reads and whether an effect    *)
(* of it threw.  prev and cur record the last two calls of the quote       *)
(* functions, with the values of their local constants.                    *)

VARIABLES fromAmount, toAmount, isTokenToUsdt, totalUsdtRaised, crashed,
          prev, cur

\* const currentPriceNatural of the last render
VARIABLE currentPriceNatural

\* The trade of the widget: its isLoading state, the /buy-tokens and
\* /sell-tokens requests awaiting their response, how many were posted, the
\* kind of the last response handled, the one-second timers pending, and what
\* the timers that fired have called and emitted.
VARIABLES isLoading, requests, posted, response, timers, refreshLog

\* useBalances of the widget: fetchingRef.current, balancesLoading of
\* useUserStore, and the /auth/balances requests of this instance awaiting
\* their response.
VARIABLES fetchingRef, balancesLoading, balanceRequests

\* chatEventEmitter: the handlers registered per event, in order; for every
\* subscribing component the closure of its running subscription effect
\* (0: not mounted); the handlers the last emit has called, the tokenAddress
\* of its payload ("": the payload has none) and the components whose handler
\* has started a refresh.
VARIABLES handlers, mounted, invoked, payload, refreshing

\* isAuthenticated of useUserStore
VARIABLE isAuthenticated

\* The chat page: its message, messages, isLoading and isLoadingHistory
\* state, the bodies of the /chat/message requests awaiting their response,
\* the last response handled, the 500 ms timers pending, the events the
\* timers that fired have emitted, in order, how many messages were sent, and
\* what the last submit event came to ("none": there was none yet).
VARIABLES message, messages, chatIsLoading, isLoadingHistory, chatRequests,
          chatResponse, chatTimers, emitted, sent, submitted

\* The token page: the request whose response it holds as token (0: null),
\* its loading and error state (is an error set?), the requests of
\* fetchTokenData awaiting their response, each with its number and its
\* silent argument, and how many requests were sent.
VARIABLES token, loading, error, fetches, issued

tradeVars == <<isLoading, requests, posted, response, timers, refreshLog,
               fetchingRef, balancesLoading, balanceRequests>>

eventVars == <<handlers, mounted, invoked, payload, refreshing>>

chatVars == <<isAuthenticated, message, messages, chatIsLoading, isLoadingHistory,
              chatRequests, chatResponse, chatTimers, emitted, sent, submitted>>

pageVars == <<token, loading, error, fetches, issued>>

vars == <<fromAmount, toAmount, isTokenToUsdt, totalUsdtRaised, crashed,
          currentPriceNatural, prev, cur, tradeVars, eventVars, chatVars, pageVars>>

\* Amounts are typed as <digit>e<exponent>, exponents in steps of ExpStep
\* from -MaxExpSteps * ExpStep to MaxExpSteps * ExpStep.
MaxExpSteps == 5
ExpStep == 6

IntText(n) == IF n = 0 THEN <<"0">> ELSE BigToDigits(BFromInt(n))

AmountText(d, k) ==
  <<d, "e">> \o (IF k < 0 THEN <<"-">> \o IntText(-k) ELSE IntText(k))

\* Amounts of everyday size, among them those of the two worked scenarios
PlainAmountTexts ==
  {<<"0", ".", "5">>, <<"1", "0", "0">>, <<"5", "0", "0", "0", "0", "0">>}

AmountTexts ==
  {AmountText(d, ExpStep * j) : d \in {"1", "2"}, j \in (-MaxExpSteps)..MaxExpSteps}
    \cup PlainAmountTexts

\* n USDT raised as the server writes it: n * 10^18 wei in decimal
WeiText(n) == IntText(n) \o ZeroChars(18)

\* Market states of a live token: nothing raised, 1000 and 1129 USDT raised
RaisedTexts == {<<"0">>, WeiText(1000), WeiText(1129)}

NoCall ==
  [dir |-> "none", amt |-> FZero(0), vq |-> FZero(0), vb |-> FZero(0),
   nvq |-> FZero(0), nvb |-> FZero(0), out |-> FZero(0), back |-> FALSE]

\* The record of a call: its direction, its locals and result, and whether
\* its argument was the result of the call before it
CallRecord(dir, run, back) ==
  [dir |-> dir, amt |-> run.amt, vq |-> run.vq, vb |-> run.vb,
   nvq |-> run.nvq, nvb |-> run.nvb, out |-> run.out, back |-> back]

\* useState(false) of isLoading, with no trade made yet
TradeIdle ==
  /\ isLoading = FALSE
  /\ requests = <<>>
  /\ posted = 0
  /\ response = "none"
  /\ timers = 0
  /\ refreshLog = <<>>
  /\ fetchingRef = FALSE
  /\ balancesLoading = FALSE
  /\ balanceRequests = 0

\* The events of chatEventEmitter
CHAT_EVENTS == {"refresh_tokens", "refresh_token_data"}

\* The components that subscribe to an event of chatEventEmitter
Components ==
  {"HomePage", "TradePage", "BotsPage", "TokenPage", "TokenSwap", "TokenChart",
   "AppSidebar"}

\* mitt(): no handler is registered; no component is mounted
NoSubscriptions ==
  /\ handlers = [e \in CHAT_EVENTS |-> <<>>]
  /\ mounted = [c \in Components |-> 0]
  /\ invoked = {}
  /\ payload = ""
  /\ refreshing = {}

----------------------------------------------------------------------------
(* The quote functions on their own: a market state is drawn, then two     *)
(* quotes are asked under it, with the arguments the quote effect passes.  *)

InitQuote ==
  /\ TradeIdle
  /\ NoSubscriptions
  /\ isAuthenticated = TRUE
  /\ message = <<>>
  /\ messages = <<>>
  /\ chatIsLoading = FALSE
  /\ isLoadingHistory = FALSE
  /\ chatRequests = <<>>
  /\ chatResponse = [rejected |-> FALSE, success |-> FALSE, response |-> <<>>,
                     error |-> <<>>, message |-> <<>>]
  /\ chatTimers = 0
  /\ emitted = <<>>
  /\ sent = 0
  /\ submitted = "none"
  /\ token = 0
  /\ loading = TRUE
  /\ error = FALSE
  /\ fetches = {}
  /\ issued = 0
  /\ fromAmount = <<>>
  /\ toAmount = <<>>
  /\ isTokenToUsdt = FALSE
  /\ totalUsdtRaised \in RaisedTexts
  /\ currentPriceNatural = getCurrentPriceNatural(totalUsdtRaised)
  /\ crashed = FALSE
  /\ prev = NoCall
  /\ cur = NoCall

\* calculateUsdtToReceive working on from the reserves the call before it
\* left, instead of deriving them from totalUsdtRaised
QuoteSellCompounding(t) ==
  /\ prev = NoCall
  /\ prev' = cur
  /\ cur' = CallRecord("sell",
                       TokensAfterSale(IF cur.dir = "none"
                                       THEN getCurrentVirtualReserves(totalUsdtRaised)
                                       ELSE [virtualUsdtNatural |-> cur.nvq,
                                             virtualTokensNatural |-> cur.nvb],
                                       ParseFloat(t)),
                       FALSE)
  /\ UNCHANGED <<fromAmount, toAmount, isTokenToUsdt, totalUsdtRaised, crashed,
                 currentPriceNatural, tradeVars, eventVars, chatVars, pageVars>>

\* calculateUsdtToReceive(fromValue) for a typed amount
QuoteSell(t) ==
  /\ prev = NoCall
  /\ prev' = cur
  /\ cur' = CallRecord("sell", UsdtToReceiveRun(totalUsdtRaised, ParseFloat(t)), FALSE)
  /\ UNCHANGED <<fromAmount, toAmount, isTokenToUsdt, totalUsdtRaised, crashed,
                 currentPriceNatural, tradeVars, eventVars, chatVars, pageVars>>

\* calculateTokensToReceive(BigInt(Math.floor(fromValue * 1e18))) for a typed
\* amount
QuoteBuy(t) ==
  \E usdtAmountWei \in {usdtAmountWeiOf(ParseFloat(t))} :
    /\ prev = NoCall
    /\ usdtAmountWei.ok
    /\ prev' = cur
    /\ cur' = CallRecord("buy", TokensToReceiveRun(totalUsdtRaised, usdtAmountWei.wei),
                         FALSE)
    /\ UNCHANGED <<fromAmount, toAmount, isTokenToUsdt, totalUsdtRaised, crashed,
                   currentPriceNatural, tradeVars, eventVars, chatVars, pageVars>>

\* The round trip: the USDT a sale was quoted is offered for tokens again
QuoteBuyBack ==
  \E usdtAmountWei \in {usdtAmountWeiOf(cur.out)} :
    /\ prev = NoCall
    /\ cur.dir = "sell"
    /\ usdtAmountWei.ok
    /\ prev' = cur
    /\ cur' = CallRecord("buy", TokensToReceiveRun(totalUsdtRaised, usdtAmountWei.wei),
                         TRUE)
    /\ UNCHANGED <<fromAmount, toAmount, isTokenToUsdt, totalUsdtRaised, crashed,
                   currentPriceNatural, tradeVars, eventVars, chatVars, pageVars>>

NextQuote ==
  \/ \E t \in AmountTexts : QuoteSell(t)
  \/ \E t \in AmountTexts : QuoteBuy(t)
  \/ QuoteBuyBack

SpecQuote == InitQuote /\ [][NextQuote]_vars

----------------------------------------------------------------------------
(* The TokenSwap widget: the amount field, the direction toggle, the token *)
(* prop and the quote effect that follows every change of one of them.     *)

\* What a user types into the amount field
TypedTexts ==
  PlainAmountTexts \cup
  {<<>>, <<"a", "b", "c">>, <<".">>, <<"0">>, <<"-", "1">>, <<"1">>,
   <<"1", "e", "3", "0">>, <<"1", "e", "-", "3", "0">>,
   InfinityText, <<"-">> \o InfinityText, NaNText}

\* token?.totalUsdtRaised as the page hands it down: absent, empty, a live
\* market, no integer at all, and raised amounts of -6000 and -7000 USDT
TokenRaisedTexts ==
  RaisedTexts \cup
  {Undefined, <<>>, <<"1", ".", "5">>, <<"-">> \o WeiText(6000), <<"-">> \o WeiText(7000)}

\* setToAmount(""), and setToAmount(calculatedToAmount.toFixed(6))
NoQuote == [threw |-> FALSE, toAmount |-> <<>>]

Quoted(calculatedToAmount) == [threw |-> FALSE, toAmount |-> ToFixed6(calculatedToAmount)]

\* The buy branch of the quote effect: BigInt may throw its RangeError
QuoteEffectBuy(usdtAmountWei, raised) ==
  IF ~usdtAmountWei.ok THEN [threw |-> TRUE, toAmount |-> <<>>]
  ELSE Quoted(calculateTokensToReceive(raised, usdtAmountWei.wei))

\* The quote effect turning away negative amounts only (fromValue < 0)
QuoteEffectZeroAllowed(fromValue, tokenToUsdt, raised) ==
  IF fromValue.k = "nan" \/ FLt(fromValue, FZero(0)) THEN NoQuote
  ELSE IF tokenToUsdt THEN Quoted(calculateUsdtToReceive(raised, fromValue))
  ELSE QuoteEffectBuy(usdtAmountWeiOf(fromValue), raised)

\* The quote effect from fromValue = parseFloat(fromAmount) on
QuoteEffectParsed(fromValue, tokenToUsdt, raised) ==
  IF fromValue.k = "nan" \/ FLe(fromValue, FZero(0)) THEN NoQuote
  ELSE IF tokenToUsdt THEN Quoted(calculateUsdtToReceive(raised, fromValue))
  ELSE QuoteEffectBuy(usdtAmountWeiOf(fromValue), raised)

\* The quote effect: the text it sets as toAmount, or threw
QuoteEffect(from, tokenToUsdt, raised) ==
  IF from = <<>> \/ raised = Undefined \/ raised = <<>> THEN NoQuote
  ELSE QuoteEffectParsed(ParseFloat(from), tokenToUsdt, raised)

\* A render with the new state, then the quote effect; an effect that throws
\* takes the widget down with the state of that render.
Render(from, tokenToUsdt, raised, shown) ==
  /\ fromAmount' = from
  /\ isTokenToUsdt' = tokenToUsdt
  /\ totalUsdtRaised' = raised
  /\ currentPriceNatural' = getCurrentPriceNatural(raised)
  /\ \E effect \in {QuoteEffect(from, tokenToUsdt, raised)} :
       /\ crashed' = effect.threw
       /\ toAmount' = IF effect.threw THEN shown ELSE effect.toAmount
  /\ UNCHANGED <<prev, cur, eventVars, chatVars, pageVars>>

Init ==
  /\ TradeIdle
  /\ NoSubscriptions
  /\ isAuthenticated = TRUE
  /\ message = <<>>
  /\ messages = <<>>
  /\ chatIsLoading = FALSE
  /\ isLoadingHistory = FALSE
  /\ chatRequests = <<>>
  /\ chatResponse = [rejected |-> FALSE, success |-> FALSE, response |-> <<>>,
                     error |-> <<>>, message |-> <<>>]
  /\ chatTimers = 0
  /\ emitted = <<>>
  /\ sent = 0
  /\ submitted = "none"
  /\ token = 0
  /\ loading = TRUE
  /\ error = FALSE
  /\ fetches = {}
  /\ issued = 0
  /\ fromAmount = <<>>
  /\ toAmount = <<>>
  /\ isTokenToUsdt = FALSE
  /\ totalUsdtRaised \in TokenRaisedTexts
  /\ currentPriceNatural = getCurrentPriceNatural(totalUsdtRaised)
  /\ crashed = FALSE
  /\ prev = NoCall
  /\ cur = NoCall

\* onChange of the amount field
ChangeFromAmount(t) ==
  /\ isAuthenticated
  /\ ~crashed
  /\ t # fromAmount
  /\ Render(t, isTokenToUsdt, totalUsdtRaised, toAmount)
  /\ UNCHANGED tradeVars

\* What formatTokenBalance and formatUsdtBalance hand to the MAX button:
\* no balance and a balance, to three and to two places
BalanceTexts(tokenToUsdt) ==
  IF tokenToUsdt
  THEN {<<"0", ".", "0", "0", "0">>, <<"2", "5", "0", "0", ".", "0", "0", "0">>}
  ELSE {<<"0", ".", "0", "0">>, <<"2", "5", "0", ".", "0", "0">>}

\* handleMaxClick
handleMaxClick ==
  \E balance \in BalanceTexts(isTokenToUsdt) :
    /\ isAuthenticated
    /\ ~crashed
    /\ Render(balance, isTokenToUsdt, totalUsdtRaised, toAmount)
    /\ UNCHANGED tradeVars

\* handleSwapDirection toggling the direction only
handleSwapDirectionKeepingAmounts ==
  /\ isAuthenticated
  /\ ~crashed
  /\ Render(fromAmount, ~isTokenToUsdt, totalUsdtRaised, toAmount)
  /\ UNCHANGED tradeVars

\* handleSwapDirection
handleSwapDirection ==
  /\ isAuthenticated
  /\ ~crashed
  /\ Render(<<>>, ~isTokenToUsdt, totalUsdtRaised, <<>>)
  /\ UNCHANGED tradeVars

\* The page hands down a token with another totalUsdtRaised
TokenUpdate(r) ==
  /\ ~crashed
  /\ r # totalUsdtRaised
  /\ Render(fromAmount, isTokenToUsdt, r, toAmount)
  /\ UNCHANGED tradeVars

Next ==
  \/ \E t \in TypedTexts : ChangeFromAmount(t)
  \/ handleMaxClick
  \/ handleSwapDirection
  \/ \E r \in TokenRaisedTexts : TokenUpdate(r)

Spec == Init /\ [][Next]_vars

----------------------------------------------------------------------------
(* The trade of the widget: the swap button, handleSwap with handleBuyTokens *)
(* and handleSellTokens up to their await, the rest of them when the        *)
(* response is there, and the timer a successful trade sets.                *)

\* So many trades are followed
MaxTrades == 2

\* The tokenAddress prop of the widget
tokenAddress == "0xToken"

\* The swap button without isLoading in its disabled attribute
SwapDisabledNotLoading ==
  fromAmount = <<>> \/ FLe(ParseFloat(fromAmount), FZero(0))

\* disabled={isLoading || !fromAmount || parseFloat(fromAmount) <= 0}
SwapDisabled ==
  isLoading \/ fromAmount = <<>> \/ FLe(ParseFloat(fromAmount), FZero(0))

\* A click on the swap button: handleSwap, and handleSellTokens or
\* handleBuyTokens up to the await of post
handleSwap ==
  /\ isAuthenticated
  /\ ~crashed
  /\ ~SwapDisabled
  /\ posted < MaxTrades
  /\ IF fromAmount = <<>> \/ FLe(ParseFloat(fromAmount), FZero(0))
     THEN UNCHANGED tradeVars
     ELSE /\ isLoading' = TRUE
          /\ requests' =
               Append(requests,
                      [endpoint |-> IF isTokenToUsdt THEN "/sell-tokens" ELSE "/buy-tokens",
                       tokenAddress |-> tokenAddress,
                       amount |-> fromAmount])
          /\ posted' = posted + 1
          /\ UNCHANGED <<response, timers, refreshLog, fetchingRef, balancesLoading,
                         balanceRequests>>
  /\ UNCHANGED <<fromAmount, toAmount, isTokenToUsdt, totalUsdtRaised, crashed,
                 currentPriceNatural, prev, cur, eventVars, chatVars, pageVars>>

\* The await of post ends.  kind is what came back: "success" is a response
\* with success = true and the data of the transaction, "successNoData" one
\* with success = true and no data (reading its transactionHash throws
\* inside the try), "failure" one with success = false, "threw" a rejected
\* request.
TradeResponse(kind) ==
  /\ requests # <<>>
  /\ requests' = Tail(requests)
  /\ response' = kind
  /\ isLoading' = FALSE
  /\ UNCHANGED <<posted, refreshLog, fetchingRef, balancesLoading, balanceRequests>>
  /\ IF kind = "success"
     THEN /\ timers' = timers + 1
          /\ Render(<<>>, isTokenToUsdt, totalUsdtRaised, <<>>)
     ELSE UNCHANGED <<timers, fromAmount, toAmount, isTokenToUsdt, totalUsdtRaised,
                      crashed, currentPriceNatural, prev, cur, eventVars, chatVars, pageVars>>

\* The handler of component c is called with a payload whose tokenAddress is
\* data: does it start its refresh?  The home and the trade page always do,
\* the bots page and the sidebar when the user is authenticated, and the
\* token page, the swap widget and the chart filter on the tokenAddress.
StartsRefreshUnfiltered(c, data) ==
  c \notin {"BotsPage", "AppSidebar"} \/ isAuthenticated

StartsRefresh(c, data) ==
  CASE c \in {"HomePage", "TradePage"} -> TRUE
    [] c \in {"BotsPage", "AppSidebar"} -> isAuthenticated
    [] OTHER -> data = "" \/ data = tokenAddress

\* chatEventEmitter.emit(type, {tokenAddress: data}): every handler
\* registered is called, in the order of registration
Emit(type, data) ==
  /\ invoked' = {handlers[type][i] : i \in 1..Len(handlers[type])}
  /\ payload' = data
  /\ refreshing' = {handlers[type][i][1] : i \in {j \in 1..Len(handlers[type]) :
                                                   StartsRefresh(handlers[type][j][1], data)}}
  /\ UNCHANGED <<handlers, mounted>>

\* fetchBalances up to the await of api.get.  authenticated is the
\* isAuthenticated of the closure called: useCallback makes a new closure when
\* isAuthenticated changes, and a caller holds the closure of the render that
\* made the caller.
fetchBalances(authenticated) ==
  IF ~authenticated \/ fetchingRef
  THEN UNCHANGED <<fetchingRef, balancesLoading, balanceRequests>>
  ELSE /\ fetchingRef' = TRUE
       /\ balancesLoading' = TRUE
       /\ balanceRequests' = balanceRequests + 1

\* The callback of setTimeout(..., 1000): onRefresh, fetchBalances and the
\* emit of REFRESH_TOKEN_DATA, which calls the handlers registered.  The
\* callback holds the fetchBalances of the render of the click, in which the
\* user was authenticated; the call of fetchBalances by the widget's own
\* handler comes after it and finds fetchingRef.current set.
RefreshTimer ==
  /\ timers > 0
  /\ timers' = timers - 1
  /\ fetchBalances(TRUE)
  /\ refreshLog' =
       Append(refreshLog,
              [onRefresh |-> TRUE, fetchBalances |-> TRUE, emitted |-> tokenAddress])
  /\ Emit("refresh_token_data", tokenAddress)
  /\ UNCHANGED <<fromAmount, toAmount, isTokenToUsdt, totalUsdtRaised, crashed,
                 currentPriceNatural, prev, cur, isLoading, requests, posted,
                 response, chatVars, pageVars>>

\* The await of api.get("/auth/balances") ends, with status 200 or rejected:
\* finally setBalancesLoading(false) and fetchingRef.current = false
BalancesResponse ==
  /\ balanceRequests > 0
  /\ balanceRequests' = balanceRequests - 1
  /\ balancesLoading' = FALSE
  /\ fetchingRef' = FALSE
  /\ UNCHANGED <<fromAmount, toAmount, isTokenToUsdt, totalUsdtRaised, crashed,
                 currentPriceNatural, prev, cur, isLoading, requests, posted, response,
                 timers, refreshLog, eventVars, chatVars, pageVars>>

\* logout of useUserStore (handleLogout of the sidebar, or a token that
\* fails to verify)
logout ==
  /\ isAuthenticated
  /\ isAuthenticated' = FALSE
  /\ balancesLoading' = FALSE
  /\ UNCHANGED <<fromAmount, toAmount, isTokenToUsdt, totalUsdtRaised, crashed,
                 currentPriceNatural, prev, cur, isLoading, requests, posted, response,
                 timers, refreshLog, fetchingRef, balanceRequests, eventVars, pageVars,
                 message, messages, chatIsLoading, isLoadingHistory, chatRequests,
                 chatResponse, chatTimers, emitted, sent, submitted>>

\* setUserData of useUserStore after a sign-in; in the commit that follows
\* the effect of useBalances on isAuthenticated calls fetchBalances
setUserData ==
  /\ ~isAuthenticated
  /\ isAuthenticated' = TRUE
  /\ fetchBalances(TRUE)
  /\ UNCHANGED <<fromAmount, toAmount, isTokenToUsdt, totalUsdtRaised, crashed,
                 currentPriceNatural, prev, cur, isLoading, requests, posted, response,
                 timers, refreshLog, eventVars, pageVars,
                 message, messages, chatIsLoading, isLoadingHistory, chatRequests,
                 chatResponse, chatTimers, emitted, sent, submitted>>

\* The widget of a live token is mounted and has subscribed
InitTrade ==
  /\ TradeIdle
  /\ handlers = [type \in CHAT_EVENTS |->
                   IF type = "refresh_token_data" THEN <<<<"TokenSwap", 1>>>> ELSE <<>>]
  /\ mounted = [c \in Components |-> IF c = "TokenSwap" THEN 1 ELSE 0]
  /\ invoked = {}
  /\ payload = ""
  /\ refreshing = {}
  /\ isAuthenticated = TRUE
  /\ message = <<>>
  /\ messages = <<>>
  /\ chatIsLoading = FALSE
  /\ isLoadingHistory = FALSE
  /\ chatRequests = <<>>
  /\ chatResponse = [rejected |-> FALSE, success |-> FALSE, response |-> <<>>,
                     error |-> <<>>, message |-> <<>>]
  /\ chatTimers = 0
  /\ emitted = <<>>
  /\ sent = 0
  /\ submitted = "none"
  /\ token = 0
  /\ loading = TRUE
  /\ error = FALSE
  /\ fetches = {}
  /\ issued = 0
  /\ fromAmount = <<>>
  /\ toAmount = <<>>
  /\ isTokenToUsdt = FALSE
  /\ totalUsdtRaised = WeiText(1000)
  /\ currentPriceNatural = getCurrentPriceNatural(totalUsdtRaised)
  /\ crashed = FALSE
  /\ prev = NoCall
  /\ cur = NoCall

NextTrade ==
  \/ \E t \in {<<>>, <<"a", "b", "c">>, <<"0">>, <<"-", "1">>, <<"1", "0", "0">>} :
       ChangeFromAmount(t)
  \/ handleSwapDirection
  \/ handleSwap
  \/ \E kind \in {"success", "successNoData", "failure", "threw"} : TradeResponse(kind)
  \/ RefreshTimer
  \/ BalancesResponse
  \/ logout
  \/ setUserData

SpecTrade == InitTrade /\ [][NextTrade]_vars

----------------------------------------------------------------------------
(* The subscriptions to chatEventEmitter.  A handler is the closure a run  *)
(* of a subscription effect creates: <<component, number of the closure>>. *)
(* A commit of React (mount, new dependencies, unmount) is one step, its   *)
(* effect cleanup and effect included.                                     *)

\* The closures of one component are told apart up to this many
MaxClosures == 2

\* The event a component subscribes to
EventOf(c) ==
  IF c \in {"HomePage", "TradePage", "BotsPage"} THEN "refresh_tokens" ELSE "refresh_token_data"

\* chatEventEmitter.off leaving the handler registered
OffNothing(registered, handler) == registered

\* chatEventEmitter.off(type, handler): the first registration of the handler
\* is taken out, the others keep their order
Off(registered, handler) ==
  IF \A i \in 1..Len(registered) : registered[i] # handler THEN registered
  ELSE LET first == CHOOSE i \in 1..Len(registered) :
                      /\ registered[i] = handler
                      /\ \A j \in 1..(i - 1) : registered[j] # handler
       IN  SubSeq(registered, 1, first - 1) \o
           SubSeq(registered, first + 1, Len(registered))

\* The subscription effect of c runs: the cleanup of its run before (if
\* any, closure old) and then chatEventEmitter.on with the closure new
\* (0: the component unmounts and only the cleanup runs)
Subscribe(c, old, new) ==
  /\ handlers' =
       [handlers EXCEPT ![EventOf(c)] =
          IF new = 0 THEN Off(@, <<c, old>>)
          ELSE IF old = 0 THEN Append(@, <<c, new>>)
          ELSE Append(Off(@, <<c, old>>), <<c, new>>)]
  /\ mounted' = [mounted EXCEPT ![c] = new]
  /\ invoked' = {}
  /\ payload' = ""
  /\ refreshing' = {}
  /\ UNCHANGED <<fromAmount, toAmount, isTokenToUsdt, totalUsdtRaised, crashed,
                 currentPriceNatural, prev, cur, tradeVars, chatVars, pageVars>>

\* A dependency of the subscription effect changes (tokenAddress,
\* isAuthenticated, onRefresh, fetchBalances); the effects of the home and
\* the trade page have none
Resubscribe(c) ==
  /\ mounted[c] # 0
  /\ c \notin {"HomePage", "TradePage"}
  /\ Subscribe(c, mounted[c], (mounted[c] % MaxClosures) + 1)

\* No widget holds a token; isAuthenticated is what the store has persisted
InitEvents ==
  /\ TradeIdle
  /\ NoSubscriptions
  /\ isAuthenticated \in BOOLEAN
  /\ message = <<>>
  /\ messages = <<>>
  /\ chatIsLoading = FALSE
  /\ isLoadingHistory = FALSE
  /\ chatRequests = <<>>
  /\ chatResponse = [rejected |-> FALSE, success |-> FALSE, response |-> <<>>,
                     error |-> <<>>, message |-> <<>>]
  /\ chatTimers = 0
  /\ emitted = <<>>
  /\ sent = 0
  /\ submitted = "none"
  /\ token = 0
  /\ loading = TRUE
  /\ error = FALSE
  /\ fetches = {}
  /\ issued = 0
  /\ fromAmount = <<>>
  /\ toAmount = <<>>
  /\ isTokenToUsdt = FALSE
  /\ totalUsdtRaised = Undefined
  /\ currentPriceNatural = getCurrentPriceNatural(totalUsdtRaised)
  /\ crashed = FALSE
  /\ prev = NoCall
  /\ cur = NoCall

NextEvents ==
  \/ \E c \in Components : mounted[c] = 0 /\ Subscribe(c, 0, 1)
  \/ \E c \in Components : Resubscribe(c)
  \/ \E c \in Components : mounted[c] # 0 /\ Subscribe(c, mounted[c], 0)
  \/ \E type \in CHAT_EVENTS :
       \E data \in IF type = "refresh_tokens" THEN {""}
                   ELSE {"", tokenAddress, "0xOther"} :
       /\ Emit(type, data)
       /\ UNCHANGED <<fromAmount, toAmount, isTokenToUsdt, totalUsdtRaised, crashed,
                      currentPriceNatural, prev, cur, tradeVars, chatVars, pageVars>>

SpecEvents == InitEvents /\ [][NextEvents]_vars

----------------------------------------------------------------------------
(* The token page and its fetchTokenData.  The page has no widget state    *)
(* of its own here; a request is the await of get between the two halves   *)
(* of fetchTokenData, and any number of them may wait at once.             *)

\* fetchTokenData is called at most this many times
MaxFetches == 4

\* fetchTokenData(silent) up to the await of get: called by the fetch effect
\* (silent = false), by the handler of REFRESH_TOKEN_DATA and by onRefresh
\* of the swap widget (silent = true)
fetchTokenData(silent) ==
  /\ issued < MaxFetches
  /\ issued' = issued + 1
  /\ loading' = IF silent THEN loading ELSE TRUE
  /\ error' = FALSE
  /\ fetches' = fetches \cup {[id |-> issued + 1, silent |-> silent]}
  /\ UNCHANGED <<token, fromAmount, toAmount, isTokenToUsdt, totalUsdtRaised, crashed,
                 currentPriceNatural, prev, cur, tradeVars, eventVars, chatVars>>

\* The await of get ends for one of the requests: setToken on success = true,
\* setError on success = false and on a rejected request, and finally
\* setLoading(false) unless silent
TokenResponse(request, kind) ==
  /\ request \in fetches
  /\ fetches' = fetches \ {request}
  /\ token' = IF kind = "success" THEN request.id ELSE token
  /\ error' = IF kind = "success" THEN error ELSE TRUE
  /\ loading' = IF request.silent THEN loading ELSE FALSE
  /\ UNCHANGED <<issued, fromAmount, toAmount, isTokenToUsdt, totalUsdtRaised, crashed,
                 currentPriceNatural, prev, cur, tradeVars, eventVars, chatVars>>

NextPage ==
  \/ \E silent \in BOOLEAN : fetchTokenData(silent)
  \/ \E request \in fetches, kind \in {"success", "failure", "threw"} :
       TokenResponse(request, kind)

SpecPage == InitEvents /\ [][NextPage]_vars

----------------------------------------------------------------------------
(* The chat page.  A text is a sequence of characters; the content of a    *)
(* message is a sequence of pieces of text, so that the template literal   *)
(* of the error message is the concatenation of its two pieces.  The event *)
(* of the form is taken in whole: sendMessage up to its await is one step, *)
(* the rest of it another.                                                 *)

\* sendMessage is accepted at most this many times
MaxSends == 2

\* String.prototype.trim for texts whose only white space is the space
Trim(text) ==
  IF \A i \in 1..Len(text) : text[i] = " " THEN <<>>
  ELSE SubSeq(text,
              CHOOSE i \in 1..Len(text) :
                text[i] # " " /\ \A j \in 1..(i - 1) : text[j] = " ",
              CHOOSE i \in 1..Len(text) :
                text[i] # " " /\ \A j \in (i + 1)..Len(text) : text[j] = " ")

\* onChange of the input, which is rendered for an authenticated user and
\* disabled while isLoading
setMessage(text) ==
  /\ isAuthenticated
  /\ ~chatIsLoading
  /\ message' = text
  /\ UNCHANGED <<isAuthenticated, messages, chatIsLoading, isLoadingHistory,
                 chatRequests, chatResponse, chatTimers, emitted, sent, submitted>>
  /\ UNCHANGED <<fromAmount, toAmount, isTokenToUsdt, totalUsdtRaised, crashed,
                 currentPriceNatural, prev, cur, tradeVars, pageVars, eventVars>>

\* sendMessage without the test of message.trim()
sendMessageUntrimmed ==
  /\ sent < MaxSends
  /\ IF ~isAuthenticated \/ chatIsLoading
     THEN /\ submitted' = "returned"
          /\ UNCHANGED <<isAuthenticated, message, messages, chatIsLoading,
                         isLoadingHistory, chatRequests, chatResponse, chatTimers,
                         emitted, sent>>
     ELSE /\ submitted' = "sent"
          /\ messages' = Append(messages, [role |-> "user", content |-> Trim(message)])
          /\ message' = <<>>
          /\ chatIsLoading' = TRUE
          /\ chatRequests' = Append(chatRequests, [message |-> Trim(message)])
          /\ sent' = sent + 1
          /\ UNCHANGED <<isAuthenticated, isLoadingHistory, chatResponse, chatTimers,
                         emitted>>
  /\ UNCHANGED <<fromAmount, toAmount, isTokenToUsdt, totalUsdtRaised, crashed,
                 currentPriceNatural, prev, cur, tradeVars, pageVars, eventVars>>

\* sendMessage up to the await of post, called by a submit event of the form
sendMessage ==
  /\ sent < MaxSends
  /\ IF Trim(message) = <<>> \/ ~isAuthenticated \/ chatIsLoading
     THEN /\ submitted' = "returned"
          /\ UNCHANGED <<isAuthenticated, message, messages, chatIsLoading,
                         isLoadingHistory, chatRequests, chatResponse, chatTimers,
                         emitted, sent>>
     ELSE /\ submitted' = "sent"
          /\ messages' = Append(messages, [role |-> "user", content |-> Trim(message)])
          /\ message' = <<>>
          /\ chatIsLoading' = TRUE
          /\ chatRequests' = Append(chatRequests, [message |-> Trim(message)])
          /\ sent' = sent + 1
          /\ UNCHANGED <<isAuthenticated, isLoadingHistory, chatResponse, chatTimers,
                         emitted>>
  /\ UNCHANGED <<fromAmount, toAmount, isTokenToUsdt, totalUsdtRaised, crashed,
                 currentPriceNatural, prev, cur, tradeVars, pageVars, eventVars>>

\* ChatResponse with a catch that only shows the toast
ChatResponseWithoutErrorMessage(r) ==
  /\ chatRequests # <<>>
  /\ chatRequests' = Tail(chatRequests)
  /\ chatResponse' = r
  /\ chatIsLoading' = FALSE
  /\ IF ~r.rejected /\ r.success /\ r.response # <<>>
     THEN /\ messages' = Append(messages, [role |-> "assistant", content |-> r.response])
          /\ chatTimers' = chatTimers + 1
     ELSE /\ UNCHANGED messages
          /\ UNCHANGED chatTimers
  /\ UNCHANGED <<isAuthenticated, message, isLoadingHistory, emitted, sent, submitted>>
  /\ UNCHANGED <<fromAmount, toAmount, isTokenToUsdt, totalUsdtRaised, crashed,
                 currentPriceNatural, prev, cur, tradeVars, pageVars, eventVars>>

\* The await of post ends with the response r: a fulfilled request brings
\* success, response and error of its body, a rejected one the error of its
\* body (error.response?.data?.error) and its message.  The assistant
\* message of a successful reply, or the error message, is appended; a
\* successful reply sets the timer of emitRefreshEvents; finally isLoading
\* is false.
ChatResponse(r) ==
  /\ chatRequests # <<>>
  /\ chatRequests' = Tail(chatRequests)
  /\ chatResponse' = r
  /\ chatIsLoading' = FALSE
  /\ IF ~r.rejected /\ r.success /\ r.response # <<>>
     THEN /\ messages' = Append(messages, [role |-> "assistant", content |-> r.response])
          /\ chatTimers' = chatTimers + 1
     ELSE /\ messages' =
               Append(messages,
                      [role |-> "assistant",
                       content |-> <<"Sorry, I encountered an error: ">> \o
                                   (IF r.rejected /\ r.error # <<>> THEN r.error
                                    ELSE IF r.rejected /\ r.message # <<>> THEN r.message
                                    ELSE IF r.rejected THEN <<"Failed to send message">>
                                    ELSE IF r.error # <<>> THEN r.error
                                    ELSE <<"Failed to get response">>)])
          /\ UNCHANGED chatTimers
  /\ UNCHANGED <<isAuthenticated, message, isLoadingHistory, emitted, sent, submitted>>
  /\ UNCHANGED <<fromAmount, toAmount, isTokenToUsdt, totalUsdtRaised, crashed,
                 currentPriceNatural, prev, cur, tradeVars, pageVars, eventVars>>

\* ChatTimer with the two emits in the other order
ChatTimerTokenDataFirst ==
  /\ chatTimers > 0
  /\ chatTimers' = chatTimers - 1
  /\ emitted' = emitted \o <<"refresh_token_data", "refresh_tokens">>
  /\ Emit("refresh_token_data", "")
  /\ UNCHANGED <<isAuthenticated, message, messages, chatIsLoading, isLoadingHistory,
                 chatRequests, chatResponse, sent, submitted>>
  /\ UNCHANGED <<fromAmount, toAmount, isTokenToUsdt, totalUsdtRaised, crashed,
                 currentPriceNatural, prev, cur, tradeVars, pageVars>>

\* The callback of setTimeout(..., 500) of emitRefreshEvents: REFRESH_TOKENS
\* is emitted without a payload, then REFRESH_TOKEN_DATA with {}
ChatTimer ==
  /\ chatTimers > 0
  /\ chatTimers' = chatTimers - 1
  /\ emitted' = emitted \o <<"refresh_tokens", "refresh_token_data">>
  /\ Emit("refresh_token_data", "")
  /\ UNCHANGED <<isAuthenticated, message, messages, chatIsLoading, isLoadingHistory,
                 chatRequests, chatResponse, sent, submitted>>
  /\ UNCHANGED <<fromAmount, toAmount, isTokenToUsdt, totalUsdtRaised, crashed,
                 currentPriceNatural, prev, cur, tradeVars, pageVars>>

\* loadChatHistory up to the await of get, called by the effect on
\* isAuthenticated when there are no messages
loadChatHistory ==
  /\ isAuthenticated
  /\ messages = <<>>
  /\ ~isLoadingHistory
  /\ isLoadingHistory' = TRUE
  /\ UNCHANGED <<isAuthenticated, message, messages, chatIsLoading, chatRequests,
                 chatResponse, chatTimers, emitted, sent, submitted>>
  /\ UNCHANGED <<fromAmount, toAmount, isTokenToUsdt, totalUsdtRaised, crashed,
                 currentPriceNatural, prev, cur, tradeVars, pageVars, eventVars>>

\* The await of get of loadChatHistory ends: setMessages(history) on
\* success = true
HistoryResponse(success, history) ==
  /\ isLoadingHistory
  /\ isLoadingHistory' = FALSE
  /\ messages' = IF success THEN history ELSE messages
  /\ UNCHANGED <<isAuthenticated, message, chatIsLoading, chatRequests, chatResponse,
                 chatTimers, emitted, sent, submitted>>
  /\ UNCHANGED <<fromAmount, toAmount, isTokenToUsdt, totalUsdtRaised, crashed,
                 currentPriceNatural, prev, cur, tradeVars, pageVars, eventVars>>

\* clearHistory after the await of del: setMessages([]) unless the request
\* was rejected
clearHistory(rejected) ==
  /\ isAuthenticated
  /\ messages' = IF rejected THEN messages ELSE <<>>
  /\ UNCHANGED <<isAuthenticated, message, chatIsLoading, isLoadingHistory,
                 chatRequests, chatResponse, chatTimers, emitted, sent, submitted>>
  /\ UNCHANGED <<fromAmount, toAmount, isTokenToUsdt, totalUsdtRaised, crashed,
                 currentPriceNatural, prev, cur, tradeVars, pageVars, eventVars>>

NextChat ==
  \/ \E text \in {<<>>, <<" ", " ">>, <<"h", "i">>, <<" ", "h", "i", " ">>} :
       setMessage(text)
  \/ sendMessage
  \/ \E r \in [rejected : BOOLEAN, success : BOOLEAN, response : {<<>>, <<"Done">>},
                error : {<<>>, <<"Rate limited">>},
                message : {<<>>, <<"Network Error">>}] : ChatResponse(r)
  \/ ChatTimer
  \/ loadChatHistory
  \/ \E success \in BOOLEAN :
       HistoryResponse(success,
                       <<[role |-> "user", content |-> <<"h", "i">>],
                         [role |-> "assistant", content |-> <<"Done">>]>>)
  \/ \E rejected \in BOOLEAN : clearHistory(rejected)
  \/ logout
  \/ setUserData
  \/ BalancesResponse

SpecChat == InitEvents /\ [][NextChat]_vars

\* Every request is answered or fails in the end, and every timer fires
SpecChatLive ==
  /\ SpecChat
  /\ WF_vars(\E r \in [rejected : BOOLEAN, success : BOOLEAN,
                         response : {<<>>, <<"Done">>},
                         error : {<<>>, <<"Rate limited">>},
                         message : {<<>>, <<"Network Error">>}] :
               ChatResponse(r))
  /\ WF_vars(ChatTimer)

----------------------------------------------------------------------------
(* Properties of the quote functions (SpecQuote).  Every call is the       *)
(* current call cur of some state, so a property of one call is stated of  *)
(* cur, and a property of two calls of prev and cur.                       *)

\* The reserves as the specification derives them from the raised amount
RaisedNatural ==
  WeiToNatural(StringToBigInt(totalUsdtRaised).s, StringToBigInt(totalUsdtRaised).n)
VirtualQuote == FAdd(FFromInt(VIRTUAL_USDT_RESERVE), RaisedNatural)
VirtualBase == FDiv(BONDING_CURVE_K, VirtualQuote)

\* The relative tolerance 1e-9 of the specification
Tolerance == FFromDecimal(0, BOne, 1, -9)

Positive(x) == FLt(FZero(0), x)

\* x * y is K within the relative tolerance
ProductIsK(x, y) ==
  FLe(FAbs(FSub(FMul(x, y), BONDING_CURVE_K)), FMul(Tolerance, BONDING_CURVE_K))

\* C1: a buy quote for a positive amount of USDT returns
\* virtualBase - K / (virtualQuote + quoteAmount), with virtualQuote =
\* 6000 + raised and virtualBase = K / virtualQuote.
BuyQuoteIsCurveFormula ==
  (cur.dir = "buy" /\ Positive(cur.amt)) =>
    FEq(cur.out, FSub(VirtualBase, FDiv(BONDING_CURVE_K, FAdd(VirtualQuote, cur.amt))))

\* 1e6 USDT are offered with 1000 USDT raised and tokens are quoted
BuyQuoteWitness ==
  /\ cur.dir = "buy"
  /\ totalUsdtRaised = WeiText(1000)
  /\ cur.amt = ParseFloat(<<"1", "e", "6">>)
  /\ Positive(cur.out)

\* C2: a sell quote for a positive amount of tokens returns
\* virtualQuote - K / (virtualBase + tokenAmount).
SellQuoteIsCurveFormula ==
  (cur.dir = "sell" /\ Positive(cur.amt)) =>
    FEq(cur.out, FSub(VirtualQuote, FDiv(BONDING_CURVE_K, FAdd(VirtualBase, cur.amt))))

\* 500000 tokens are sold with 1000 USDT raised and USDT are quoted
SellQuoteWitness ==
  /\ cur.dir = "sell"
  /\ totalUsdtRaised = WeiText(1000)
  /\ cur.amt = ParseFloat(<<"5", "0", "0", "0", "0", "0">>)
  /\ Positive(cur.out)

\* C3: the derived reserves multiply to K within the relative tolerance 1e-9,
\* and so do the reserves after the trade that a quote for a positive amount
\* works with, in either direction.
ConstantProduct ==
  /\ ProductIsK(getCurrentVirtualReserves(totalUsdtRaised).virtualUsdtNatural,
                getCurrentVirtualReserves(totalUsdtRaised).virtualTokensNatural)
  /\ (cur.dir # "none" /\ Positive(cur.amt)) =>
       /\ ProductIsK(cur.vq, cur.vb)
       /\ ProductIsK(cur.nvq, cur.nvb)

\* Both directions were quoted with USDT raised, the trade moving the reserves
ConstantProductWitness ==
  /\ totalUsdtRaised = WeiText(1129)
  /\ prev.dir = "sell" /\ cur.dir = "buy"
  /\ Positive(prev.amt) /\ Positive(cur.amt)
  /\ cur.nvq # cur.vq /\ prev.nvb # prev.vb

\* C4: for a positive amount a sell quote is at least 0 and below
\* virtualQuote, and a buy quote is at least 0 and below virtualBase.
QuoteWithinReserve ==
  /\ (cur.dir = "sell" /\ Positive(cur.amt)) =>
       (FLe(FZero(0), cur.out) /\ FLt(cur.out, cur.vq))
  /\ (cur.dir = "buy" /\ Positive(cur.amt)) =>
       (FLe(FZero(0), cur.out) /\ FLt(cur.out, cur.vb))

\* C8 as written: of two quotes in one direction under one market state,
\* the one for the larger amount is strictly larger.
QuoteStrictlyMonotone ==
  (prev.dir = cur.dir /\ ~cur.back /\ Positive(prev.amt) /\ FLt(prev.amt, cur.amt)) =>
    FLt(prev.out, cur.out)

\* C8 amended: of two quotes in one direction under one market state, the
\* one for the larger amount is not smaller.
QuoteMonotone ==
  (prev.dir = cur.dir /\ ~cur.back /\ Positive(prev.amt) /\ FLt(prev.amt, cur.amt)) =>
    FLe(prev.out, cur.out)

\* A larger sale was quoted more, and a larger purchase was quoted the same
QuoteMonotoneWitness ==
  /\ prev.dir = cur.dir /\ ~cur.back
  /\ Positive(prev.amt) /\ FLt(prev.amt, cur.amt)
  /\ \/ cur.dir = "sell" /\ FLt(prev.out, cur.out)
     \/ cur.dir = "buy" /\ FEq(prev.out, cur.out)
  /\ totalUsdtRaised = WeiText(1000)

\* cur quotes the sale of twice the tokens of prev
SaleDoubled ==
  /\ prev.dir = "sell" /\ cur.dir = "sell"
  /\ Positive(prev.amt)
  /\ FEq(cur.amt, FAdd(prev.amt, prev.amt))

\* C9 as written: the sale of 2a tokens is quoted strictly less than twice
\* the quote of the sale of a tokens.
DiminishingReturnsStrict ==
  SaleDoubled => FLt(cur.out, FAdd(prev.out, prev.out))

\* C9 amended: the sale of 2a tokens is quoted at most twice the quote of the
\* sale of a tokens plus 1e-9 of virtualQuote.
DiminishingReturns ==
  SaleDoubled =>
    FLe(cur.out, FAdd(FAdd(prev.out, prev.out), FMul(Tolerance, cur.vq)))

\* Two million tokens after one million: the price impact shows
DiminishingReturnsWitness ==
  /\ SaleDoubled
  /\ prev.amt = ParseFloat(<<"1", "e", "6">>)
  /\ Positive(prev.out)
  /\ FLt(cur.out, FAdd(prev.out, prev.out))

\* C10 as written: buying with the USDT a sale of tokens was quoted returns
\* at most the tokens sold.
NoRoundTripGainExact ==
  (cur.back /\ Positive(prev.amt)) => FLe(cur.out, prev.amt)

\* C10 amended: buying with the USDT a sale of tokens was quoted returns at
\* most the tokens sold plus 1e-9 of virtualBase.
NoRoundTripGain ==
  (cur.back /\ Positive(prev.amt)) =>
    FLe(cur.out, FAdd(prev.amt, FMul(Tolerance, cur.vb)))

\* A sale that was quoted USDT, and the tokens those USDT buy back
NoRoundTripGainWitness ==
  /\ cur.back
  /\ Positive(prev.amt) /\ Positive(prev.out)
  /\ Positive(cur.out)
  /\ FEq(cur.amt, prev.out)

\* The spot price before the call cur and that of the reserves after its trade
PriceBefore == FDiv(cur.vq, cur.vb)
PriceAfter == FDiv(cur.nvq, cur.nvb)

\* 500000 tokens are sold with 1000 USDT raised
SaleOfScenario ==
  /\ cur.dir = "sell"
  /\ totalUsdtRaised = WeiText(1000)
  /\ cur.amt = ParseFloat(<<"5", "0", "0", "0", "0", "0">>)

\* C12 as written: after the sale of a positive amount of tokens the spot
\* price of the new reserves is strictly below the spot price before.
PriceFallsOnSaleStrict ==
  (cur.dir = "sell" /\ Positive(cur.amt)) => FLt(PriceAfter, PriceBefore)

\* C12 amended: after the sale of a positive amount of tokens the spot price
\* of the new reserves is at most the spot price before plus 1e-9 of it, and
\* strictly below it for 500000 tokens with 1000 USDT raised.
PriceFallsOnSale ==
  /\ (cur.dir = "sell" /\ Positive(cur.amt)) =>
       FLe(PriceAfter, FAdd(PriceBefore, FMul(Tolerance, PriceBefore)))
  /\ SaleOfScenario => FLt(PriceAfter, PriceBefore)

\* The sale of the scenario was quoted from reserves of 7000 USDT
PriceFallsOnSaleWitness ==
  /\ SaleOfScenario
  /\ FEq(cur.vq, FFromInt(7000))
  /\ FLt(cur.vb, cur.nvb)
  /\ FLt(PriceAfter, PriceBefore)

\* 100 USDT are offered with nothing raised
BuyOfScenario ==
  /\ cur.dir = "buy"
  /\ totalUsdtRaised = <<"0">>
  /\ cur.amt = FFromInt(100)

\* x is about n: within one unit of it
About(x, n) == FLe(FAbs(FSub(x, FFromInt(n))), FFromInt(1))

SameInputs ==
  /\ prev.dir # "none"
  /\ prev.dir = cur.dir
  /\ prev.amt = cur.amt

----------------------------------------------------------------------------
(* Properties of the widget (Spec).                                        *)

\* fromAmount is empty, parses to no number, or to zero or less
InvalidInput ==
  \/ fromAmount = <<>>
  \/ ParseFloat(fromAmount).k = "nan"
  \/ FLe(ParseFloat(fromAmount), FZero(0))

\* C5: with fromAmount empty, no number, zero or negative, in either
\* direction, the quote effect has not thrown and toAmount is the empty text.
InvalidInputGivesNoQuote ==
  InvalidInput => (~crashed /\ toAmount = <<>>)

\* A negative amount was typed on the sell side of a live market and a zero
\* on the buy side
InvalidInputWitness ==
  /\ totalUsdtRaised = WeiText(1000)
  /\ \/ isTokenToUsdt /\ fromAmount = <<"-", "1">>
     \/ ~isTokenToUsdt /\ fromAmount = <<"0">>
  /\ toAmount = <<>>

\* C6: with an amount that is no finite number the quote effect has not
\* thrown and toAmount is the empty text, in either direction.
NonFiniteInputGivesNoQuote ==
  ParseFloat(fromAmount).k = "inf" => (~crashed /\ toAmount = <<>>)

\* The quote 0 as toFixed(6) writes it
ZeroQuoteText == ToFixed6(FZero(0))

\* totalUsdtRaised is a negative amount
RaisedNegative ==
  StringToBigInt(totalUsdtRaised).ok /\ StringToBigInt(totalUsdtRaised).s = 1

\* C7: with a negative raised amount the quote shown is empty or zero, the
\* quote effect has not thrown and the spot price is 0.
DegenerateStateGivesZeroQuote ==
  RaisedNegative =>
    /\ ~crashed
    /\ toAmount \in {<<>>, ZeroQuoteText}
    /\ FEq(getCurrentPriceNatural(totalUsdtRaised), FZero(0))

\* totalUsdtRaised is the text of a non-negative amount of wei
RaisedNonNegative ==
  StringToBigInt(totalUsdtRaised).ok /\ StringToBigInt(totalUsdtRaised).s = 0

\* C11: with a non-negative raised amount the spot price of every render is
\* virtualQuote / virtualBase, a finite number above zero, whatever amount is
\* typed and whichever direction is chosen.
SpotPriceIsRatio ==
  RaisedNonNegative =>
    /\ FEq(currentPriceNatural, FDiv(VirtualQuote, VirtualBase))
    /\ Positive(currentPriceNatural)
    /\ FIsFinite(currentPriceNatural)

\* The price was rendered with USDT raised, an amount typed and the sell
\* direction chosen
SpotPriceWitness ==
  /\ totalUsdtRaised = WeiText(1000)
  /\ isTokenToUsdt
  /\ fromAmount = <<"1", "0", "0">>
  /\ Positive(currentPriceNatural)

\* The quote effect sets no quote: the amount is invalid or totalUsdtRaised
\* is missing
QuoteMissing == InvalidInput \/ totalUsdtRaised \in {Undefined, <<>>}

\* The quote of fromAmount in the current direction against totalUsdtRaised
CurrentQuote ==
  IF isTokenToUsdt
  THEN calculateUsdtToReceive(totalUsdtRaised, ParseFloat(fromAmount))
  ELSE calculateTokensToReceive(totalUsdtRaised,
                                usdtAmountWeiOf(ParseFloat(fromAmount)).wei)

\* C15: after every edit, MAX click, direction flip and token update toAmount
\* is empty when the amount is invalid or totalUsdtRaised is missing, and
\* otherwise it is the quote of fromAmount in the current direction against
\* the current totalUsdtRaised, and not empty.
DisplayedQuoteFollowsState ==
  IF QuoteMissing THEN toAmount = <<>>
  ELSE toAmount # <<>> /\ toAmount = ToFixed6(CurrentQuote)

----------------------------------------------------------------------------
(* Properties of the subscriptions (SpecEvents).                           *)

\* The closures of the subscription effects now running, of one event and
\* of all
Running(type) ==
  {<<c, mounted[c]>> : c \in {d \in Components : mounted[d] # 0 /\ EventOf(d) = type}}

----------------------------------------------------------------------------
(* Properties of the trade (SpecTrade).                                    *)

\* C17: every request waiting for its response was posted for an amount that
\* parses to a number above zero, and isLoading is true only while a request
\* waits.
RequestOnlyForPositiveAmount ==
  /\ \A i \in 1..Len(requests) : Positive(ParseFloat(requests[i].amount))
  /\ isLoading => requests # <<>>

\* C18: at most one request waits for its response, and isLoading is true
\* while it does.
AtMostOneRequest ==
  /\ Len(requests) <= 1
  /\ requests # <<>> => isLoading

\* The second trade waits for its response with a valid amount in the field
AtMostOneRequestWitness ==
  /\ Len(requests) = 1
  /\ posted = 2
  /\ isLoading
  /\ fromAmount = <<"1", "0", "0">>

\* C19, but for its last part: the step that handles a response sets
\* isLoading to false; for a response with success = true it empties
\* fromAmount and toAmount and sets the timer, for any other it leaves the
\* three as they are; the timer calls onRefresh and fetchBalances and emits
\* REFRESH_TOKEN_DATA with the tokenAddress of the widget.
TradeOutcome ==
  /\ [][Len(requests') < Len(requests) =>
          /\ isLoading' = FALSE
          /\ IF response' \in {"success", "successNoData"}
             THEN fromAmount' = <<>> /\ toAmount' = <<>> /\ timers' = timers + 1
             ELSE fromAmount' = fromAmount /\ toAmount' = toAmount /\ timers' = timers]_vars
  /\ [][timers' < timers =>
          refreshLog' = Append(refreshLog, [onRefresh |-> TRUE, fetchBalances |-> TRUE,
                                            emitted |-> tokenAddress])]_vars

\* The endpoint of the current direction
EndpointOfDirection == IF isTokenToUsdt THEN "/sell-tokens" ELSE "/buy-tokens"

\* C20: a step that changes the direction empties fromAmount and toAmount; a
\* quote shown is the quote of fromAmount in the current direction; a
\* request is posted to the endpoint of the direction it is made in.
DirectionFlipDiscards ==
  /\ [][isTokenToUsdt' # isTokenToUsdt => (fromAmount' = <<>> /\ toAmount' = <<>>)]_vars
  /\ [](toAmount # <<>> => toAmount = ToFixed6(CurrentQuote))
  /\ [][Len(requests') > Len(requests) =>
          requests'[Len(requests')].endpoint = EndpointOfDirection]_vars

\* After a purchase a sale waits for its response, its quote on display
DirectionFlipWitness ==
  /\ isTokenToUsdt
  /\ toAmount # <<>>
  /\ posted = 2
  /\ response = "success"
  /\ Len(requests) = 1
  /\ requests[1].endpoint = "/sell-tokens"

----------------------------------------------------------------------------
(* Properties of the refresh handlers (SpecEvents)                         *)

\* C21: after an emit, the token page, the swap widget and the chart have
\* started a refresh exactly when their handler was called and the payload
\* carries no tokenAddress or the tokenAddress of the component; a payload
\* that names another token starts no refresh in any of the three.
TokenScopedRefresh ==
  \A c \in {"TokenPage", "TokenSwap", "TokenChart"} :
    c \in refreshing <=>
      /\ \E handler \in invoked : handler[1] = c
      /\ payload \in {"", tokenAddress}

\* The three are subscribed and called with the address of another token:
\* none of them refreshes, while the sidebar, which does not filter, does
TokenScopedRefreshWitness ==
  /\ payload = "0xOther"
  /\ {handler[1] : handler \in invoked} =
       {"TokenPage", "TokenSwap", "TokenChart", "AppSidebar"}
  /\ refreshing = {"AppSidebar"}

----------------------------------------------------------------------------
(* Properties of the token page (SpecPage)                                 *)

\* C22: whatever the order in which the responses of overlapping
\* fetchTokenData calls arrive, the page never replaces the token it holds
\* by the response of an earlier request, so that the token stored in the
\* end is the response of the latest request.
NewerTokenKept == [][token <= token']_vars

----------------------------------------------------------------------------
(* Properties of the chat page (SpecChat, SpecChatLive)                    *)

\* The step appends a message of the user to messages
UserMessageAppended ==
  /\ Len(messages') = Len(messages) + 1
  /\ SubSeq(messages', 1, Len(messages)) = messages
  /\ messages'[Len(messages')].role = "user"

\* C23: at most one /chat/message request is in flight; and from a state in
\* which the trimmed message is empty, the user is not authenticated or a
\* send is loading, no step sends a request or appends a message of the
\* user, a submit event included.
ChatSendGuard ==
  /\ [](Len(chatRequests) <= 1)
  /\ [][Trim(message) = <<>> \/ ~isAuthenticated \/ chatIsLoading =>
          /\ Len(chatRequests') <= Len(chatRequests)
          /\ sent' = sent
          /\ ~UserMessageAppended
          /\ submitted' # submitted =>
               submitted' = "returned" /\ messages' = messages]_vars

\* A submit event has returned at the guard for a message of spaces only,
\* with the user authenticated and nothing loading; before it a message
\* was sent and answered
ChatSendGuardWitness ==
  /\ submitted = "returned"
  /\ message = <<" ", " ">>
  /\ isAuthenticated
  /\ ~chatIsLoading
  /\ chatRequests = <<>>
  /\ sent = 1
  /\ Len(messages) = 2

\* The step handles the response of a /chat/message request
ReplyHandled == Len(chatRequests') < Len(chatRequests)

\* The response handled last is a successful reply: fulfilled, success =
\* true and a response that is not empty
ReplySucceeded ==
  ~chatResponse.rejected /\ chatResponse.success /\ chatResponse.response # <<>>

\* C24: an accepted send appends the user's trimmed message; the step that
\* handles its response appends exactly one assistant message, the response
\* of the server for a successful reply and otherwise a text that starts
\* with 'Sorry, I encountered an error: '; both steps keep the messages
\* there were, in their order; and isLoading is false again in the end.
ChatTranscript ==
  /\ [][sent' # sent =>
          /\ messages' = Append(messages, [role |-> "user", content |-> Trim(message)])
          /\ chatIsLoading']_vars
  /\ [][ReplyHandled =>
          /\ Len(messages') = Len(messages) + 1
          /\ SubSeq(messages', 1, Len(messages)) = messages
          /\ messages'[Len(messages')].role = "assistant"
          /\ IF ReplySucceeded'
             THEN messages'[Len(messages')].content = chatResponse'.response
             ELSE messages'[Len(messages')].content[1] = "Sorry, I encountered an error: "
          /\ ~chatIsLoading']_vars
  /\ (chatIsLoading ~> ~chatIsLoading)

\* A reply with success = true and an empty response was answered with the
\* error message, after the message of the user
ChatTranscriptWitness ==
  /\ messages = <<[role |-> "user", content |-> <<"h", "i">>],
                  [role |-> "assistant",
                   content |-> <<"Sorry, I encountered an error: ",
                                 "Failed to get response">>]>>
  /\ chatResponse.success
  /\ ~chatResponse.rejected
  /\ ~chatIsLoading
  /\ chatTimers = 0
  /\ emitted = <<>>

\* C25: a timer is set only by the step that handles a successful reply and
\* appends its assistant message, one timer per such reply and none for
\* another response; a submit that returns at the guard sets none; every
\* timer emits REFRESH_TOKENS and then REFRESH_TOKEN_DATA, without a
\* tokenAddress, once, and nothing else emits; and every timer fires.
RefreshAfterReply ==
  /\ [][ReplyHandled =>
          /\ chatTimers' = chatTimers + (IF ReplySucceeded' THEN 1 ELSE 0)
          /\ ReplySucceeded' =>
               messages' = Append(messages, [role |-> "assistant",
                                             content |-> chatResponse'.response])
          /\ emitted' = emitted]_vars
  /\ [][chatTimers' > chatTimers => ReplyHandled /\ ReplySucceeded']_vars
  /\ [][emitted' # emitted =>
          /\ emitted' = emitted \o <<"refresh_tokens", "refresh_token_data">>
          /\ chatTimers' = chatTimers - 1
          /\ payload' = ""
          /\ messages' = messages]_vars
  /\ (chatTimers > 0 ~> chatTimers = 0)

\* Two messages were sent; the first reply was successful and its timer has
\* emitted the two events, the second one failed and no timer was set
RefreshAfterReplyWitness ==
  /\ sent = 2
  /\ Len(messages) = 4
  /\ messages[2].content = <<"Done">>
  /\ messages[4].content[1] = "Sorry, I encountered an error: "
  /\ ~chatIsLoading
  /\ chatTimers = 0
  /\ emitted = <<"refresh_tokens", "refresh_token_data">>

----------------------------------------------------------------------------
(* Properties of useBalances in the swap widget (SpecTrade)                *)

\* C26: the instance never has more than one /auth/balances request in
\* flight; a request is sent only while the user is authenticated and no
\* fetch of the instance is in flight; and when a request ends, with
\* success or with failure, fetchingRef.current and balancesLoading are
\* false again.
SingleBalanceFetch ==
  /\ [](balanceRequests <= 1)
  /\ [][balanceRequests' > balanceRequests => isAuthenticated' /\ ~fetchingRef]_vars
  /\ [][balanceRequests' < balanceRequests => ~fetchingRef' /\ ~balancesLoading']_vars

====
